---- MODULE Spec2Model ----
(***************************************************************************)
(* siba(4) support routines (sys/dev/bhnd/siba/siba_subr.c):               *)
(*   - the address-space <-> port/region mapper,                           *)
(*   - the siba_devinfo registry (alloc / init / append region / free),    *)
(*   - the polled target-state writer (write + verify, then busy wait).    *)
(*                                                                         *)
(* uint32_t / u_int values are little-endian sequences of two 16-bit       *)
(* limbs, rman_res_t values sequences of four, so that every addition and  *)
(* subtraction wraps at the width the C code has.                          *)
(***************************************************************************)
EXTENDS Integers, Sequences, FiniteSets, TLC

VARIABLES
    m,          \* mapper: arguments and results of the pure mapping functions
    dinfo,      \* the struct siba_devinfo, or NoDinfo when none is allocated
    rcall,      \* registry: the last completed call and its return value
    appended,   \* history: addrspace slots a successful append has targeted
    w           \* target-state writer: position, locals and history of a call

vars == <<m, dinfo, rcall, appended, w>>

\* ------------------------------------------------------------------------
\* Fixed-width unsigned arithmetic
\* ------------------------------------------------------------------------
LimbBase == 256 * 256

RECURSIVE AddC(_, _, _)
AddC(a, b, c) ==
    IF a = <<>> THEN <<>>
    ELSE LET s == a[1] + b[1] + c
         IN  <<s % LimbBase>> \o AddC(Tail(a), Tail(b), s \div LimbBase)

RECURSIVE SubB(_, _, _)
SubB(a, b, brw) ==
    IF a = <<>> THEN <<>>
    ELSE LET d == a[1] - b[1] - brw
         IN  <<(d + LimbBase) % LimbBase>>
             \o SubB(Tail(a), Tail(b), IF d < 0 THEN 1 ELSE 0)

RECURSIVE WLt(_, _)
WLt(a, b) ==
    IF a = <<>> THEN FALSE
    ELSE LET n == Len(a)
         IN  IF a[n] # b[n] THEN a[n] < b[n]
             ELSE WLt(SubSeq(a, 1, n - 1), SubSeq(b, 1, n - 1))

WAdd(a, b) == AddC(a, b, 0)        \* a + b, wrapping at the operand width
WSub(a, b) == SubB(a, b, 0)        \* a - b, wrapping at the operand width
WLe(a, b)  == ~WLt(b, a)

U(k)       == <<k % LimbBase, k \div LimbBase>>     \* a 32-bit value
UINT32_MAX == <<LimbBase - 1, LimbBase - 1>>
ToRman(x)  == x \o <<0, 0>>                         \* uint32_t -> rman_res_t
R(k)       == ToRman(U(k))

RECURSIVE BitAnd(_, _)
BitAnd(a, b) ==
    IF a = 0 \/ b = 0 THEN 0
    ELSE (a % 2) * (b % 2) + 2 * BitAnd(a \div 2, b \div 2)

BitOr(a, b)     == a + b - BitAnd(a, b)
BitAndNot(a, b) == a - BitAnd(a, b)                 \* a & ~b

\* ------------------------------------------------------------------------
\* Address-space <-> port/region mapper
\* ------------------------------------------------------------------------
SIBA_MAX_ADDRSPACE == 4

PortTypes == {"BHND_PORT_DEVICE", "BHND_PORT_BRIDGE", "BHND_PORT_AGENT"}

siba_addrspace_port(addrspace) ==
    IF addrspace = U(0) THEN U(0) ELSE U(1)

siba_addrspace_region_noadj(addrspace) == addrspace

siba_addrspace_region(addrspace) ==
    IF addrspace = U(0) THEN U(0) ELSE WSub(addrspace, U(1))

umin(a, b) == IF WLt(a, b) THEN a ELSE b

siba_addrspace_port_count(num_addrspace) == umin(num_addrspace, U(2))

siba_addrspace_region_count(num_addrspace, port) ==
    IF port = U(0) THEN umin(num_addrspace, U(1))
    ELSE IF port = U(1) /\ WLe(U(2), num_addrspace)
         THEN WSub(num_addrspace, U(1))
         ELSE U(0)

siba_is_port_valid(num_addrspace, type, port) ==
    IF type # "BHND_PORT_DEVICE" THEN FALSE
    ELSE IF WLe(siba_addrspace_port_count(num_addrspace), port) THEN FALSE
    ELSE TRUE

\* Returns the errno and the content of *addridx, which is left as the
\* caller had it (old) on every failing path.
siba_addrspace_index(num_addrspace, type, port, region, old) ==
    IF ~siba_is_port_valid(num_addrspace, type, port)
    THEN [ret |-> "ENOENT", addridx |-> old]
    ELSE IF port # U(0) /\ port # U(1)
    THEN [ret |-> "ENOENT", addridx |-> old]
    ELSE LET idx == IF port = U(0) THEN region ELSE WAdd(region, U(1))
         IN  IF WLe(num_addrspace, idx)
             THEN [ret |-> "ENOENT", addridx |-> old]
             ELSE [ret |-> "OK", addridx |-> idx]

\* ------------------------------------------------------------------------
\* Device info registry
\* ------------------------------------------------------------------------
SIBA_MAX_CFG == 2

AddrspaceSlots == 0..(SIBA_MAX_ADDRSPACE - 1)     \* nitems(dinfo->addrspace)
CfgSlots       == 0..(SIBA_MAX_CFG - 1)           \* nitems(dinfo->cfg)

\* No struct siba_devinfo is allocated (a NULL dinfo)
NoDinfo   == [null |-> TRUE]
IsNull(d) == "core_id" \notin DOMAIN d

\* A zero-filled struct siba_addrspace / struct siba_core_id (M_ZERO)
ZeroAddrspace == [sa_base |-> U(0), sa_size |-> U(0),
                  sa_bus_reserved |-> U(0), sa_rid |-> 0]
ZeroCoreId    == [num_addrspace |-> 0, num_cfg_blocks |-> 0]

\* resource_list_add_next(): the entry gets the first resource id not yet
\* used by an entry of its type, and that id is returned.
RECURSIVE FirstFreeRid(_, _, _)
FirstFreeRid(rl, type, rid) ==
    IF \E k \in 1..Len(rl) : rl[k].type = type /\ rl[k].rid = rid
    THEN FirstFreeRid(rl, type, rid + 1)
    ELSE rid

resource_list_add_next(rl, type, start, end, count) ==
    LET rid == FirstFreeRid(rl, type, 0)
    IN  [rl  |-> Append(rl, [type |-> type, rid |-> rid, start |-> start,
                             end |-> end, count |-> count]),
         rid |-> rid]

\* malloc(M_NOWAIT|M_ZERO), then cfg[i] = NULL and cfg_rid[i] = -1 for every
\* config block, then resource_list_init().
siba_alloc_dinfo ==
    [core_id   |-> ZeroCoreId,
     addrspace |-> [i \in AddrspaceSlots |-> ZeroAddrspace],
     cfg       |-> [i \in CfgSlots |-> "NULL"],
     cfg_rid   |-> [i \in CfgSlots |-> -1],
     resources |-> <<>>]

siba_init_dinfo(d, core_id) == [d EXCEPT !.core_id = core_id]

\* The argument checks of siba_append_dinfo_region, in the code's order.
AppendValidate_SizeFirst(addridx, base, size, bus_reserved) ==
    IF size = U(0) THEN "EINVAL"
    ELSE IF WLt(WSub(UINT32_MAX, WSub(size, U(1))), base) THEN "ERANGE"
    ELSE IF WLt(size, bus_reserved) THEN "EINVAL"
    ELSE IF addridx >= SIBA_MAX_ADDRSPACE THEN "ERANGE"
    ELSE "OK"

AppendValidate(addridx, base, size, bus_reserved) ==
    IF WLt(U(0), size) /\ WLt(WSub(UINT32_MAX, WSub(size, U(1))), base)
    THEN "ERANGE"
    ELSE IF WLt(size, bus_reserved) THEN "ERANGE"
    ELSE IF size = U(0) THEN "EINVAL"
    ELSE IF addridx >= SIBA_MAX_ADDRSPACE THEN "EINVAL"
    ELSE "OK"

\* The stores of siba_append_dinfo_region once the arguments are accepted.
\* r_size is an rman_res_t: size - bus_reserved is computed in 32 bits and
\* widened; base + (r_size - 1) is computed in the width of rman_res_t.
AppendCommit_EndPastLast(d, addridx, base, size, bus_reserved) ==
    LET r_size == ToRman(WSub(size, bus_reserved))
        added  == resource_list_add_next(d.resources, "SYS_RES_MEMORY",
                      ToRman(base), WAdd(ToRman(base), r_size), r_size)
    IN  [d EXCEPT !.addrspace[addridx] =
                       [sa_base |-> base, sa_size |-> size,
                        sa_bus_reserved |-> bus_reserved,
                        sa_rid |-> added.rid],
                  !.resources = added.rl]

AppendCommit(d, addridx, base, size, bus_reserved) ==
    LET r_size == ToRman(WSub(size, bus_reserved))
        added  == resource_list_add_next(d.resources, "SYS_RES_MEMORY",
                      ToRman(base),
                      WAdd(ToRman(base), WSub(r_size, R(1))), r_size)
    IN  [d EXCEPT !.addrspace[addridx] =
                       [sa_base |-> base, sa_size |-> size,
                        sa_bus_reserved |-> bus_reserved,
                        sa_rid |-> added.rid],
                  !.resources = added.rl]

siba_append_dinfo_region_EarlyStore(d, addridx, base, size, bus_reserved) ==
    LET e == AppendValidate(addridx, base, size, bus_reserved)
    IN  IF e = "OK"
        THEN [ret |-> "OK",
              dinfo |-> AppendCommit(d, addridx, base, size, bus_reserved)]
        ELSE IF addridx < SIBA_MAX_ADDRSPACE
        THEN [ret |-> e,
              dinfo |-> [d EXCEPT !.addrspace[addridx].sa_base = base,
                                  !.addrspace[addridx].sa_size = size]]
        ELSE [ret |-> e, dinfo |-> d]

siba_append_dinfo_region(d, addridx, base, size, bus_reserved) ==
    LET e == AppendValidate(addridx, base, size, bus_reserved)
    IN  IF e = "OK"
        THEN [ret |-> "OK",
              dinfo |-> AppendCommit(d, addridx, base, size, bus_reserved)]
        ELSE [ret |-> e, dinfo |-> d]

\* Inputs of the registry.  rman_res_t is taken as the 64-bit uintmax_t.
MaxResources == 2
CoreIds      == {[num_addrspace |-> 2, num_cfg_blocks |-> 1]}
AppendIdxs   == {0, 1, SIBA_MAX_ADDRSPACE}
Bases        == {U(0), U(4096), UINT32_MAX}
Sizes        == {U(0), U(4096)}
BusReserved  == {U(0), U(4096), U(8192)}

NoCall == [op |-> "none", addridx |-> 0, base |-> U(0), size |-> U(0),
           bus_reserved |-> U(0), ret |-> "none"]

\* dinfo = siba_alloc_dinfo(bus); M_NOWAIT may fail and return NULL.
AllocDinfo ==
    /\ IsNull(dinfo)
    /\ \E ok \in BOOLEAN :
         /\ dinfo' = IF ok THEN siba_alloc_dinfo ELSE NoDinfo
         /\ rcall' = [NoCall EXCEPT !.op = "alloc",
                                    !.ret = IF ok THEN "OK" ELSE "NULL"]
    /\ appended' = {}
    /\ UNCHANGED <<m, w>>

\* siba_init_dinfo(dev, dinfo, core_id)
InitDinfo ==
    /\ ~IsNull(dinfo)
    /\ \E core_id \in CoreIds :
         dinfo' = siba_init_dinfo(dinfo, core_id)
    /\ rcall' = [NoCall EXCEPT !.op = "init", !.ret = "OK"]
    /\ UNCHANGED <<m, appended, w>>

\* siba_append_dinfo_region(dinfo, addridx, base, size, bus_reserved).
\* The resource list is kept to MaxResources entries; a failing call is
\* possible in every state.
AppendRegion ==
    /\ ~IsNull(dinfo)
    /\ \E addridx \in AppendIdxs, base \in Bases, size \in Sizes,
          bus_reserved \in BusReserved :
         \E r \in {siba_append_dinfo_region(dinfo, addridx, base, size,
                                            bus_reserved)} :
             /\ Len(r.dinfo.resources) <= MaxResources
             /\ dinfo' = r.dinfo
             /\ rcall' = [op |-> "append", addridx |-> addridx,
                          base |-> base, size |-> size,
                          bus_reserved |-> bus_reserved, ret |-> r.ret]
             /\ appended' = IF r.ret = "OK" THEN appended \cup {addridx}
                            ELSE appended
    /\ UNCHANGED <<m, w>>

\* siba_free_dinfo(dev, dinfo): the resource list and every mapped config
\* block are released, then the structure itself.
FreeDinfo ==
    /\ ~IsNull(dinfo)
    /\ dinfo' = NoDinfo
    /\ rcall' = [NoCall EXCEPT !.op = "free", !.ret = "OK"]
    /\ appended' = {}
    /\ UNCHANGED <<m, w>>

\* ------------------------------------------------------------------------
\* Target-state writer
\* ------------------------------------------------------------------------
SIBA_CFG_SIZE == 256
SIBA_TMH_BUSY == 4

\* for (int i = 0; i < 300; i += 10) in siba_write_target_state
WtsLoopCond_Inclusive(i) == i <= 300

WtsLoopCond(i) == i < 300

\* for (int i = 0; i < usec; i += 10) in siba_wait_target_busy
WtbLoopCond(i, usec) == i < usec

\* rval &= ~mask; rval |= (value & mask);
RmwValue(rval, value, mask) == BitOr(BitAndNot(rval, mask), BitAnd(value, mask))

\* if ((rval & mask) == (value & mask))
VerifyMatch_Always(rval, value, mask) == TRUE

VerifyMatch(rval, value, mask) == BitAnd(rval, mask) = BitAnd(value, mask)

\* if (!(ts_high & SIBA_TMH_BUSY))
BusyClear(ts_high) == BitAnd(ts_high, SIBA_TMH_BUSY) = 0

\* Inputs of the writer; RegVals are the values a register read may return.
WRegs   == {0, SIBA_CFG_SIZE - 4, SIBA_CFG_SIZE}
WValues == {0, 3}
WMasks  == {1, 5}
WUsecs  == {0, 25, 100000}
RegVals == {0, 1, SIBA_TMH_BUSY}

\* pc: where the running call stands; reg .. ts_high: its arguments and
\* locals; ret: the value the last call returned.  History of the running
\* (or last) call: written, the value of the last bhnd_bus_write_4;
\* n_writes, the writes to the state register so far; polled, whether
\* SIBA_CFG0_TMSTATEHIGH has been read; verified, whether a verify read has
\* shown the masked bits equal to the target; logged, whether device_printf
\* has reported a timeout.
WIdle == [pc |-> "idle", op |-> "none", reg |-> 0, value |-> 0, mask |-> 0,
          i |-> 0, rval |-> 0, usec |-> 0, ts_high |-> 0, ret |-> "none",
          written |-> 0, n_writes |-> 0, polled |-> FALSE,
          verified |-> FALSE, logged |-> FALSE]

\* A call returns: its locals die, its history stays until the next call.
WReturn(f, ret) ==
    [WIdle EXCEPT !.op = f.op, !.ret = ret, !.ts_high = f.ts_high,
                  !.n_writes = f.n_writes, !.polled = f.polled,
                  !.verified = f.verified, !.logged = f.logged]

\* Entry of siba_wait_target_busy(dev, dinfo, usec) up to its loop.  From
\* siba_write_target_state the call is in tail position: the caller's
\* locals are dead and only the history f carries is kept.
siba_wait_target_busy(f, usec) ==
    IF dinfo.cfg[0] = "NULL"
    THEN WReturn(f, "ENODEV")
    ELSE [WIdle EXCEPT !.pc = "wtb_loop", !.op = f.op, !.usec = usec,
                       !.i = 0, !.n_writes = f.n_writes,
                       !.verified = f.verified]

\* siba_write_target_state(dev, dinfo, reg, value, mask) up to its loop
WriteTargetState ==
    /\ w.pc = "idle"
    /\ \E reg \in WRegs, value \in WValues, mask \in WMasks :
         LET f == [WIdle EXCEPT !.op = "write_target_state"]
         IN  w' = IF dinfo.cfg[0] = "NULL" THEN WReturn(f, "ENODEV")
                  ELSE IF reg > SIBA_CFG_SIZE - 4 THEN WReturn(f, "EFAULT")
                  ELSE [f EXCEPT !.pc = "wts_loop", !.reg = reg,
                                 !.value = value, !.mask = mask, !.i = 0]
    /\ UNCHANGED <<m, dinfo, rcall, appended>>

\* One pass of the loop body up to the verify read: read, modify, write,
\* read back, DELAY(1), read again.
WtsAttempt ==
    /\ w.pc = "wts_loop"
    /\ WtsLoopCond(w.i)
    /\ \E r1 \in RegVals, r2 \in RegVals, r3 \in RegVals :
         w' = [w EXCEPT !.pc = "wts_check",
                        !.written = RmwValue(r1, w.value, w.mask),
                        !.rval = r3,
                        !.n_writes = @ + 1,
                        !.verified = @ \/ (BitAnd(r3, w.mask)
                                             = BitAnd(w.value, w.mask))]
    /\ UNCHANGED <<m, dinfo, rcall, appended>>

\* The comparison that ends the loop body: on a match the busy wait is
\* entered, otherwise DELAY(10) and i += 10.
WtsCheck ==
    /\ w.pc = "wts_check"
    /\ w' = IF VerifyMatch(w.rval, w.value, w.mask)
            THEN siba_wait_target_busy(w, 100000)
            ELSE [w EXCEPT !.pc = "wts_loop", !.i = @ + 10]
    /\ UNCHANGED <<m, dinfo, rcall, appended>>

\* The loop of siba_write_target_state ran out: return (ETIMEDOUT)
WtsTimeout ==
    /\ w.pc = "wts_loop"
    /\ ~WtsLoopCond(w.i)
    /\ w' = WReturn(w, "ETIMEDOUT")
    /\ UNCHANGED <<m, dinfo, rcall, appended>>

\* siba_wait_target_busy(dev, dinfo, usec) called on its own
WaitTargetBusy ==
    /\ w.pc = "idle"
    /\ \E usec \in WUsecs :
         w' = siba_wait_target_busy(
                  [WIdle EXCEPT !.op = "wait_target_busy"], usec)
    /\ UNCHANGED <<m, dinfo, rcall, appended>>

\* One pass of the busy loop: read SIBA_CFG0_TMSTATEHIGH, return 0 when
\* SIBA_TMH_BUSY is clear, otherwise DELAY(10) and i += 10.
WtbPoll ==
    /\ w.pc = "wtb_loop"
    /\ WtbLoopCond(w.i, w.usec)
    /\ \E ts_high \in RegVals :
         LET f == [w EXCEPT !.ts_high = ts_high, !.polled = TRUE]
         IN  w' = IF BusyClear(ts_high) THEN WReturn(f, "OK")
                  ELSE [f EXCEPT !.i = @ + 10]
    /\ UNCHANGED <<m, dinfo, rcall, appended>>

\* The busy loop ran out: device_printf(...), return (ETIMEDOUT)
WtbTimeout ==
    /\ w.pc = "wtb_loop"
    /\ ~WtbLoopCond(w.i, w.usec)
    /\ w' = WReturn([w EXCEPT !.logged = TRUE], "ETIMEDOUT")
    /\ UNCHANGED <<m, dinfo, rcall, appended>>

\* ------------------------------------------------------------------------
\* Specifications
\* ------------------------------------------------------------------------
\* Inputs of the mapper
AddrspaceCounts == {U(k) : k \in 0..SIBA_MAX_ADDRSPACE}
AddrspaceIdxs   == {U(k) : k \in 0..(SIBA_MAX_ADDRSPACE - 1)}
Ports           == {U(0), U(1), U(2), UINT32_MAX}
Regions         == {U(0), U(1), U(2), U(3), U(4), UINT32_MAX}

MapperIdle == [n |-> U(0), i |-> U(0), type |-> "BHND_PORT_DEVICE",
               port |-> U(0), region |-> U(0),
               port_of_i |-> FALSE, region_of_i |-> FALSE,
               ret |-> "none", addridx |-> U(0)]

InitMapper ==
    /\ m \in [n : AddrspaceCounts, i : AddrspaceIdxs, type : PortTypes,
              port : Ports, region : Regions,
              port_of_i : {FALSE}, region_of_i : {FALSE},
              ret : {"none"}, addridx : {U(0), UINT32_MAX}]
    /\ dinfo = NoDinfo
    /\ rcall = NoCall
    /\ appended = {}
    /\ w = WIdle

\* port = siba_addrspace_port(i)
MapPort ==
    /\ m.ret = "none"
    /\ ~m.port_of_i
    /\ m' = [m EXCEPT !.port = siba_addrspace_port(m.i), !.port_of_i = TRUE]
    /\ UNCHANGED <<dinfo, rcall, appended, w>>

\* region = siba_addrspace_region(i)
MapRegion ==
    /\ m.ret = "none"
    /\ ~m.region_of_i
    /\ m' = [m EXCEPT !.region = siba_addrspace_region(m.i),
                      !.region_of_i = TRUE]
    /\ UNCHANGED <<dinfo, rcall, appended, w>>

\* error = siba_addrspace_index(n, type, port, region, &addridx)
MapIndex ==
    /\ m.ret = "none"
    /\ LET r == siba_addrspace_index(m.n, m.type, m.port, m.region, m.addridx)
       IN  m' = [m EXCEPT !.ret = r.ret, !.addridx = r.addridx]
    /\ UNCHANGED <<dinfo, rcall, appended, w>>

NextMapper == MapPort \/ MapRegion \/ MapIndex

SpecMapper == InitMapper /\ [][NextMapper]_vars

InitRegistry ==
    /\ m = MapperIdle
    /\ dinfo = NoDinfo
    /\ rcall = NoCall
    /\ appended = {}
    /\ w = WIdle

NextRegistry == AllocDinfo \/ InitDinfo \/ AppendRegion \/ FreeDinfo

SpecRegistry == InitRegistry /\ [][NextRegistry]_vars

\* The writer runs on a device info whose CFG0 block the bus has either
\* mapped or not.
InitWriter ==
    /\ m = MapperIdle
    /\ dinfo \in {siba_alloc_dinfo,
                  [siba_alloc_dinfo EXCEPT !.cfg[0] = "CFG0",
                                           !.cfg_rid[0] = 0]}
    /\ rcall = NoCall
    /\ appended = {}
    /\ w = WIdle

NextWriter ==
    \/ WriteTargetState \/ WtsAttempt \/ WtsCheck \/ WtsTimeout
    \/ WaitTargetBusy \/ WtbPoll \/ WtbTimeout

SpecWriter == InitWriter /\ [][NextWriter]_vars

\* ------------------------------------------------------------------------
\* Properties
\* ------------------------------------------------------------------------
RID_UNASSIGNED == -1

\* C1: round trip of the mapper.  For every address-space count n up to the
\* capacity and every index i < n, mapping i to its port and region with
\* siba_addrspace_port / siba_addrspace_region and back with
\* siba_addrspace_index on a device port succeeds and yields i.
C1_RoundTrip ==
    (/\ m.ret # "none"
     /\ m.port_of_i /\ m.region_of_i
     /\ m.type = "BHND_PORT_DEVICE"
     /\ WLt(m.i, m.n))
    => (m.ret = "OK" /\ m.addridx = m.i)

C1_Witness ==
    /\ m.ret = "OK"
    /\ m.port_of_i /\ m.region_of_i
    /\ m.n = U(SIBA_MAX_ADDRSPACE) /\ m.i = U(3)
    /\ m.port = U(1) /\ m.region = U(2)
    /\ m.addridx = U(3)

\* C2: the mapping is a bijection.  Whenever siba_addrspace_index succeeds
\* with index i, (port, region) is the one pair assigned to i: (0, 0) for
\* index 0 and (1, i - 1) for i >= 1; and region is below the region count
\* of the port.
C2_Bijection ==
    m.ret = "OK" =>
       /\ \/ m.addridx = U(0) /\ m.port = U(0) /\ m.region = U(0)
          \/ /\ m.addridx # U(0)
             /\ m.port = U(1)
             /\ m.region = WSub(m.addridx, U(1))
       /\ WLt(m.region, siba_addrspace_region_count(m.n, m.port))

\* The sum base + (size - 1) computed without wrapping (in 64 bits)
LastAddress(base, size) == WSub(WAdd(ToRman(base), ToRman(size)), R(1))
Overflows(base, size)   == WLt(ToRman(UINT32_MAX), LastAddress(base, size))

ArgsAccepted(c) ==
    /\ c.size # U(0)
    /\ ~Overflows(c.base, c.size)
    /\ WLe(c.bus_reserved, c.size)
    /\ c.addridx < SIBA_MAX_ADDRSPACE

\* C4: an append whose arguments pass validation succeeds, stores base,
\* size and bus_reserved in slot addridx, adds exactly one memory entry to
\* the resource list with start = base, end = base + (size - bus_reserved)
\* - 1 and count = size - bus_reserved (in the arithmetic of the resource
\* range type), and stores the identifier of that entry, which no other
\* entry has, in the slot.
C4_AppendStores ==
    [][(rcall'.op = "append" /\ ArgsAccepted(rcall')) =>
         LET c    == rcall'
             old  == dinfo.resources
             new  == dinfo'.resources
             e    == new[Len(new)]
             slot == dinfo'.addrspace[c.addridx]
         IN  /\ c.ret = "OK"
             /\ slot.sa_base = c.base
             /\ slot.sa_size = c.size
             /\ slot.sa_bus_reserved = c.bus_reserved
             /\ Len(new) = Len(old) + 1
             /\ SubSeq(new, 1, Len(old)) = old
             /\ e.type = "SYS_RES_MEMORY"
             /\ e.start = ToRman(c.base)
             /\ WAdd(e.count, ToRman(c.bus_reserved)) = ToRman(c.size)
             /\ WAdd(e.end, R(1)) = WAdd(ToRman(c.base), e.count)
             /\ slot.sa_rid = e.rid
             /\ \A k \in 1..Len(old) : old[k].rid # e.rid
      ]_vars

C4_Witness ==
    /\ rcall.op = "append" /\ rcall.ret = "OK"
    /\ rcall.addridx = 1
    /\ rcall.base = U(4096) /\ rcall.size = U(4096)
    /\ rcall.bus_reserved = U(0)
    /\ Len(dinfo.resources) = 2
    /\ dinfo.resources[2].start = R(4096)
    /\ dinfo.resources[2].end = R(8191)
    /\ dinfo.resources[2].count = R(4096)
    /\ dinfo.addrspace[1].sa_rid = 1

\* C5: a failing append leaves the device info unchanged: no resource-list
\* entry is added and no field of any address-space slot changes.
C5_FailureFrame ==
    [][(rcall'.op = "append" /\ rcall'.ret # "OK") => dinfo' = dinfo]_vars

C5_Witness ==
    /\ rcall.op = "append" /\ rcall.ret = "ERANGE"
    /\ rcall.addridx = 0
    /\ rcall.base = U(4096)
    /\ Len(dinfo.resources) = 1
    /\ dinfo.addrspace[0].sa_base = U(0)
    /\ dinfo.addrspace[0].sa_size = U(4096)

\* C6: right after siba_alloc_dinfo the resource list is empty and every
\* address-space slot and every config slot holds the unassigned resource
\* id; and an address-space slot that no successful append has targeted
\* still holds the unassigned id.
C6_UnassignedSentinel ==
    ~IsNull(dinfo) =>
       /\ rcall.op = "alloc" =>
             /\ dinfo.resources = <<>>
             /\ \A i \in CfgSlots : dinfo.cfg_rid[i] = RID_UNASSIGNED
             /\ \A i \in AddrspaceSlots :
                    dinfo.addrspace[i].sa_rid = RID_UNASSIGNED
       /\ \A i \in AddrspaceSlots \ appended :
              dinfo.addrspace[i].sa_rid = RID_UNASSIGNED

\* C7: the two phases of siba_write_target_state are sequential.  The busy
\* status is polled only after a verify read has shown (read & mask) =
\* (value & mask); once it has been polled the state register is written no
\* more; and the call returns success only if a verify read matched and a
\* busy poll then saw SIBA_TMH_BUSY clear.
C7_PhasesSequential ==
    [][w'.op = "write_target_state" =>
         /\ (w'.polled \/ w'.pc = "wtb_loop") => w'.verified
         /\ (w.op = "write_target_state" /\ w'.n_writes > w.n_writes)
                => ~w.polled /\ w.pc # "wtb_loop"
         /\ (w'.pc = "idle" /\ w'.ret = "OK")
                => /\ w'.verified /\ w'.polled
                   /\ w.pc = "wtb_loop"
                   /\ BitAnd(w'.ts_high, SIBA_TMH_BUSY) = 0
      ]_vars

C7_Witness ==
    /\ w.pc = "idle" /\ w.op = "write_target_state" /\ w.ret = "OK"
    /\ w.n_writes = 2 /\ w.verified /\ w.polled
    /\ w.ts_high = 1

\* C8: bounded commit retry.  With CFG0 mapped and the offset in range,
\* siba_write_target_state makes at most 30 read-modify-write attempts; if
\* no verify read ever matches it makes exactly 30, never starts the busy
\* wait, and returns ETIMEDOUT.
C8_BoundedRetry ==
    w.op = "write_target_state" =>
       /\ w.n_writes <= 30
       /\ ~w.verified => (~w.polled /\ w.pc # "wtb_loop")
       /\ (w.pc = "idle" /\ w.ret \notin {"ENODEV", "EFAULT"} /\ ~w.verified)
              => (w.ret = "ETIMEDOUT" /\ w.n_writes = 30)

C8_Witness ==
    /\ w.pc = "idle" /\ w.op = "write_target_state"
    /\ w.ret = "ETIMEDOUT" /\ ~w.verified /\ ~w.polled
    /\ w.n_writes = 30

\* C9: every ETIMEDOUT return of siba_write_target_state or
\* siba_wait_target_busy comes after a timeout message has been written to
\* the diagnostic sink.
C9_TimeoutLogged ==
    (w.pc = "idle" /\ w.ret = "ETIMEDOUT") => w.logged

\* C10: every entry of the resource list is a non-empty range: count >= 1,
\* start <= end <= 0xFFFFFFFF, and it lies inside [base, base + size - 1]
\* of the address space that holds its resource id.
C10_WellFormedRanges ==
    ~IsNull(dinfo) =>
       \A k \in 1..Len(dinfo.resources) :
          LET e == dinfo.resources[k]
          IN  /\ WLe(R(1), e.count)
              /\ WLe(e.start, e.end)
              /\ WLe(e.end, ToRman(UINT32_MAX))
              /\ \A i \in appended :
                    dinfo.addrspace[i].sa_rid = e.rid =>
                       /\ WLe(ToRman(dinfo.addrspace[i].sa_base), e.start)
                       /\ WLe(e.end, LastAddress(dinfo.addrspace[i].sa_base,
                                                 dinfo.addrspace[i].sa_size))

====
